---- MODULE Spec2Model ----
(***************************************************************************)
(* temporal-hijri: the HijriCalendar bridge between Temporal.PlainDate     *)
(* (ISO calendar) and the Hijri coordinates of a hijri-core engine, and    *)
(* the arithmetic (dateAdd, dateUntil) built on it.                        *)
(*                                                                         *)
(* Representation.                                                         *)
(*  - A Temporal.PlainDate is the number of its ISO day (an integer); the  *)
(*    ISO year/month/day fields and that number determine each other, and  *)
(*    PlainDate.add({days}) / PlainDate.until are exact on it.             *)
(*  - A JavaScript Date is an instant, [t |-> hours since the epoch, UTC]. *)
(*    The host timezone is tz hours east of UTC, so the local fields of an *)
(*    instant t are those of day (t + tz) \div 24 and its UTC fields those *)
(*    of day t \div 24.                                                    *)
(*  - The engine (hijri-core) is outside the repository. It is modelled by *)
(*    its contract: a table of month lengths (29 or 30), a first day, a    *)
(*    supported range of Hijri years, and the Date fields it reads, as     *)
(*    HijriCalendar.ts:36-40 documents them for the two engines shipped.   *)
(***************************************************************************)
EXTENDS Integers, Sequences, FiniteSets, TLC

VARIABLES engine, id, tz, last

vars == <<engine, id, tz, last>>

----------------------------------------------------------------------------
(* Bounds *)

NumYears == 2        \* Hijri years covered by the bounded (table) engine
Margin == 2          \* ISO days tried on either side of that table
MaxTz == 1           \* host timezone offsets range over -MaxTz..MaxTz hours
MaxYears == 1        \* duration.years ranges over -MaxYears..MaxYears
MaxMonths == 13      \* duration.months ranges over -MaxMonths..MaxMonths
MaxWeeks == 1        \* duration.weeks ranges over -MaxWeeks..MaxWeeks
MaxDays == 1         \* duration.days ranges over -MaxDays..MaxDays

(* Program constants *)

DefaultYear == 1444  \* monthDayFromFields reference year
MonthsInYear == 12   \* monthsInYear

FirstYear == DefaultYear
LastYear == FirstYear + NumYears - 1
Reach == MaxYears + (MaxMonths \div MonthsInYear) + 2
AllYears == (FirstYear - Reach)..(LastYear + Reach)
Months == 1..MonthsInYear

Absent == [absent |-> TRUE]      \* the engine's null

----------------------------------------------------------------------------
(* The engine: hijri-core's CalendarEngine, by contract *)

\* Month lengths of three kinds of year. The second is Umm al-Qura 1444 as
\* the tests know it (Ramadan of 29 days, 236 days before it, 354 in all);
\* the first has 355 days, as Umm al-Qura 1443.
Patterns ==
  << <<30, 29, 30, 29, 30, 29, 30, 29, 30, 29, 30, 30>>,
     <<29, 30, 30, 29, 30, 29, 29, 30, 29, 30, 29, 30>>,
     <<30, 29, 29, 30, 30, 29, 30, 30, 29, 30, 29, 29>> >>

\* Month lengths of the table numbered s: year y follows one of the patterns.
MonthLen(s, y, m) == Patterns[((y + s) % Len(Patterns)) + 1][m]

RECURSIVE SumLen(_, _, _)
SumLen(s, y, m) == IF m = 0 THEN 0 ELSE MonthLen(s, y, m) + SumLen(s, y, m - 1)

YearLen(s, y) == SumLen(s, y, MonthsInYear)

\* ISO day of 1 Muharram FirstYear, which is 2022-07-30.
Epoch == Margin + 2

RECURSIVE YearStartRec(_, _)
YearStartRec(s, y) ==
  IF y = FirstYear THEN Epoch
  ELSE IF y > FirstYear THEN YearStartRec(s, y - 1) + YearLen(s, y - 1)
  ELSE YearStartRec(s, y + 1) - YearLen(s, y)

Tables == {0, 1}

YearStart == [s \in Tables |-> [y \in AllYears |-> YearStartRec(s, y)]]

MonthStart(s, y, m) == YearStart[s][y] + SumLen(s, y, m - 1)

\* The two engines of the package: getCalendar('uaq') and getCalendar('fcna').
UaqEngine ==
  [id |-> "uaq", reads |-> "local", table |-> 0, bounded |-> TRUE]
FcnaEngine ==
  [id |-> "fcna", reads |-> "utc", table |-> 1, bounded |-> FALSE]
Engines == {UaqEngine, FcnaEngine}

SupportedYears(e) == IF e.bounded THEN FirstYear..LastYear ELSE AllYears

ValidCoord(e, hy, hm, hd) ==
  /\ hy \in SupportedYears(e)
  /\ hm \in Months
  /\ hd >= 1
  /\ hd <= MonthLen(e.table, hy, hm)

IsoDayOf(e, hy, hm, hd) == MonthStart(e.table, hy, hm) + hd - 1

\* ISO days the inputs and results of the model can fall on.
FirstIsoDay == Epoch - Margin - 1
LastIsoDay == YearStart[0][LastYear] + YearLen(0, LastYear) + Margin
IsoDays == FirstIsoDay..LastIsoDay

\* The year of table s that contains ISO day d.
YearOfDay(s, d) ==
  CHOOSE hy \in AllYears :
    /\ YearStart[s][hy] <= d
    /\ d < YearStart[s][hy] + YearLen(s, hy)

\* The month of year y of table s that contains ISO day d.
MonthOfDay(s, y, d) ==
  CHOOSE hm \in Months :
    /\ MonthStart(s, y, hm) <= d
    /\ d < MonthStart(s, y, hm) + MonthLen(s, y, hm)

CoordInMonth(s, y, m, d) ==
  [hy |-> y, hm |-> m, hd |-> d - MonthStart(s, y, m) + 1]

CoordInYear(s, y, d) == CoordInMonth(s, y, MonthOfDay(s, y, d), d)

\* The coordinate of ISO day d in table s.
CoordOfDay(s, d) == CoordInYear(s, YearOfDay(s, d), d)

CoordOfDayTable == [s \in Tables |-> [d \in IsoDays |-> CoordOfDay(s, d)]]

\* Date fields as the engine reads them (UAQ: local, FCNA: UTC).
EngineReadsDay(e, jsDate) ==
  IF e.reads = "local" THEN (jsDate.t + tz) \div 24 ELSE jsDate.t \div 24

\* engine.toHijri(jsDate): the coordinate, or null outside the domain.
WithinDomain(e, c) == IF c.hy \in SupportedYears(e) THEN c ELSE Absent

EngineToHijri(e, jsDate) ==
  WithinDomain(e, CoordOfDayTable[e.table][EngineReadsDay(e, jsDate)])

\* engine.toGregorian(hy, hm, hd): a Date at UTC midnight of the day, or null.
EngineToGregorian(e, hy, hm, hd) ==
  IF ValidCoord(e, hy, hm, hd)
  THEN [t |-> IsoDayOf(e, hy, hm, hd) * 24]
  ELSE Absent

\* engine.daysInMonth(hy, hm): 29 or 30 (no days for a month that is none)
EngineDaysInMonth(e, hy, hm) ==
  IF hm \in Months THEN MonthLen(e.table, hy, hm) ELSE 0

----------------------------------------------------------------------------
(* JavaScript Date and Temporal, as far as the calendar uses them *)

\* new Date(Date.UTC(year, month - 1, day)): UTC midnight of the ISO day.
NewUTCDate(date) == [t |-> date * 24]

\* new Date(year, month - 1, day): local midnight of the ISO day.
NewLocalDate(date) == [t |-> date * 24 - tz]

\* getUTCFullYear / getUTCMonth / getUTCDate, as an ISO day.
UTCDay(jsDate) == jsDate.t \div 24

\* Days from 1970-01-01 to 2022-07-30, less the model's number of that day.
IsoOffset == 19203 - Epoch

\* The ISO year, month and day of a PlainDate (proleptic Gregorian rules).
IsoFields(date) ==
  LET z == date + IsoOffset + 719468
      era == z \div 146097
      doe == z - era * 146097
      yoe == (doe - (doe \div 1460) + (doe \div 36524) - (doe \div 146096))
               \div 365
      doy == doe - (365 * yoe + (yoe \div 4) - (yoe \div 100))
      mp == (5 * doy + 2) \div 153
      m == IF mp < 10 THEN mp + 3 ELSE mp - 9
  IN [year |-> yoe + era * 400 + (IF m <= 2 THEN 1 ELSE 0),
      month |-> m,
      day |-> doy - ((153 * mp + 2) \div 5) + 1]

Returned(v, c) == [ok |-> TRUE, val |-> v, calls |-> c]
Thrown(e, c) == [ok |-> FALSE, err |-> e, calls |-> c]

OutOfRange(what) == [type |-> "RangeError", calendar |-> id, subject |-> what]

----------------------------------------------------------------------------
(* HijriCalendar: the coordinate bridge *)

toHijri(date) ==
  LET jsDate == NewLocalDate(date)
      hijri == EngineToHijri(engine, jsDate)
      call == <<[fn |-> "toHijri", arg |-> jsDate, ret |-> hijri]>>
  IN IF hijri = Absent
     THEN Thrown(OutOfRange([date |-> date]), call)
     ELSE Returned(hijri, call)

\* fromHijri falling back on the first day of the month when the engine has
\* no date for the coordinate.
fromHijriFallback(hy, hm, hd) ==
  LET greg == EngineToGregorian(engine, hy, hm, hd)
      first == EngineToGregorian(engine, hy, hm, 1)
      calls == <<[fn |-> "toGregorian",
                  arg |-> [hy |-> hy, hm |-> hm, hd |-> hd], ret |-> greg],
                 [fn |-> "toGregorian",
                  arg |-> [hy |-> hy, hm |-> hm, hd |-> 1], ret |-> first]>>
  IN IF greg # Absent THEN Returned(UTCDay(greg), <<calls[1]>>)
     ELSE IF first # Absent THEN Returned(UTCDay(first), calls)
     ELSE Thrown(OutOfRange([hy |-> hy, hm |-> hm, hd |-> hd]), calls)

fromHijri(hy, hm, hd) ==
  LET greg == EngineToGregorian(engine, hy, hm, hd)
      call == <<[fn |-> "toGregorian",
                 arg |-> [hy |-> hy, hm |-> hm, hd |-> hd], ret |-> greg]>>
  IN IF greg = Absent
     THEN Thrown(OutOfRange([hy |-> hy, hm |-> hm, hd |-> hd]), call)
     ELSE Returned(UTCDay(greg), call)

----------------------------------------------------------------------------
(* Field accessors *)

year(date) ==
  LET h == toHijri(date) IN IF h.ok THEN Returned(h.val.hy, h.calls) ELSE h

month(date) ==
  LET h == toHijri(date) IN IF h.ok THEN Returned(h.val.hm, h.calls) ELSE h

DigitChars == <<"0", "1", "2", "3", "4", "5", "6", "7", "8", "9">>

\* String(n) for a non-negative integer, as a sequence of characters
RECURSIVE NumberToString(_)
NumberToString(n) ==
  IF n < 10 THEN <<DigitChars[n + 1]>>
  ELSE Append(NumberToString(n \div 10), DigitChars[(n % 10) + 1])

\* str.padStart(targetLength, padString) for a one-character padString
RECURSIVE PadStart(_, _, _)
PadStart(str, targetLength, padString) ==
  IF Len(str) >= targetLength THEN str
  ELSE PadStart(<<padString>> \o str, targetLength, padString)

\* monthCode without padStart.
monthCodeUnpadded(date) ==
  LET h == toHijri(date)
  IN IF h.ok
     THEN Returned(<<"M">> \o NumberToString(h.val.hm), h.calls)
     ELSE h

monthCode(date) ==
  LET h == toHijri(date)
  IN IF h.ok
     THEN Returned(<<"M">> \o PadStart(NumberToString(h.val.hm), 2, "0"),
                   h.calls)
     ELSE h

day(date) ==
  LET h == toHijri(date) IN IF h.ok THEN Returned(h.val.hd, h.calls) ELSE h

----------------------------------------------------------------------------
(* Month and year metrics *)

daysInMonth(date) ==
  LET h == toHijri(date)
  IN IF h.ok
     THEN Returned(EngineDaysInMonth(engine, h.val.hy, h.val.hm), h.calls)
     ELSE h

\* for (let m = 1; m <= 12; m++) total += engine.daysInMonth(hy, m)
RECURSIVE SumMonths(_, _, _)
SumMonths(hy, m, upTo) ==
  IF m > upTo THEN 0
  ELSE EngineDaysInMonth(engine, hy, m) + SumMonths(hy, m + 1, upTo)

\* daysInYear with a loop that stops before the twelfth month.
daysInYearEleven(date) ==
  LET h == toHijri(date)
  IN IF h.ok THEN Returned(SumMonths(h.val.hy, 1, 11), h.calls) ELSE h

daysInYear(date) ==
  LET h == toHijri(date)
  IN IF h.ok THEN Returned(SumMonths(h.val.hy, 1, 12), h.calls) ELSE h

inLeapYear(date) ==
  LET n == daysInYear(date)
  IN IF n.ok THEN Returned(n.val = 355, n.calls) ELSE n

\* dayOfYear with the loop bound m <= hm: the date's own month is counted.
dayOfYearThroughMonth(date) ==
  LET h == toHijri(date)
  IN IF h.ok
     THEN Returned(h.val.hd + SumMonths(h.val.hy, 1, h.val.hm), h.calls)
     ELSE h

dayOfYear(date) ==
  LET h == toHijri(date)
  IN IF h.ok
     THEN Returned(h.val.hd + SumMonths(h.val.hy, 1, h.val.hm - 1), h.calls)
     ELSE h

\* Math.floor(n / 7)
FloorDiv7(n) == n \div 7

\* Math.ceil(n / 7) for a positive integer n
CeilDiv7(n) == (n + 6) \div 7

weekOfYear(date) ==
  LET n == dayOfYear(date)
  IN IF n.ok THEN Returned(CeilDiv7(n.val), n.calls) ELSE n

----------------------------------------------------------------------------
(* Construction from fields *)

dateFromFields(fields, options) ==
  fromHijri(fields.year, fields.month, fields.day)

yearMonthFromFields(fields, options) ==
  LET isoDate == fromHijri(fields.year, fields.month, 1)
  IN IF ~isoDate.ok THEN isoDate
     ELSE Returned([year |-> IsoFields(isoDate.val).year,
                    month |-> IsoFields(isoDate.val).month], isoDate.calls)

\* The reference year whatever the fields hold.
ReferenceYearFixed(fields) == DefaultYear

\* fields.year ?? 1444
ReferenceYear(fields) ==
  IF "year" \in DOMAIN fields THEN fields.year ELSE DefaultYear

monthDayFromFields(fields, options) ==
  LET isoDate == fromHijri(ReferenceYear(fields), fields.month, fields.day)
  IN IF ~isoDate.ok THEN isoDate
     ELSE Returned([month |-> IsoFields(isoDate.val).month,
                    day |-> IsoFields(isoDate.val).day], isoDate.calls)

----------------------------------------------------------------------------
(* Arithmetic: dateAdd *)

\* One year carried at most: an if where the source has a while.
NormalizeAboveOnce(newHy, newHm) ==
  IF newHm > 12 THEN [hy |-> newHy + 1, hm |-> newHm - 12]
  ELSE [hy |-> newHy, hm |-> newHm]

\* while (newHm > 12) { newHm -= 12; newHy++; }
RECURSIVE NormalizeAbove(_, _)
NormalizeAbove(newHy, newHm) ==
  IF newHm > 12 THEN NormalizeAbove(newHy + 1, newHm - 12)
  ELSE [hy |-> newHy, hm |-> newHm]

\* while (newHm < 1) { newHm += 12; newHy--; }
RECURSIVE NormalizeBelow(_, _)
NormalizeBelow(newHy, newHm) ==
  IF newHm < 1 THEN NormalizeBelow(newHy - 1, newHm + 12)
  ELSE [hy |-> newHy, hm |-> newHm]

NormalizeMonth(newHy, newHm) ==
  LET a == NormalizeAbove(newHy, newHm) IN NormalizeBelow(a.hy, a.hm)

\* The day left as it is.
ClampDayNot(hd, maxDay) == hd

\* Math.min(hd, maxDay)
ClampDay(hd, maxDay) == IF hd < maxDay THEN hd ELSE maxDay

\* (duration.days ?? 0) + (duration.weeks ?? 0) * 7
DayDelta(duration) == duration.days + duration.weeks * 7

\* Temporal.PlainDate.prototype.add({ days }): exact ISO day arithmetic
PlainDateAddDays(date, days) == date + days

\* dateAdd, lines 228-231: the Hijri result converted back to ISO, then the
\* day/week delta applied. locals are the values of the method's variables.
dateAddIso(locals, calls, intermediate, dayDelta) ==
  IF ~intermediate.ok
  THEN [ok |-> FALSE, err |-> intermediate.err,
        calls |-> calls \o intermediate.calls, locals |-> locals]
  ELSE [ok |-> TRUE,
        val |-> IF dayDelta # 0
                THEN PlainDateAddDays(intermediate.val, dayDelta)
                ELSE intermediate.val,
        calls |-> calls \o intermediate.calls,
        locals |-> locals @@ [intermediate |-> intermediate.val]]

\* dateAdd, lines 224-226: the day clamped to the target month.
dateAddClamp(hijri, calls, target, maxDay, duration) ==
  LET clampedDay == ClampDay(hijri.hd, maxDay)
  IN dateAddIso([hy |-> hijri.hy, hm |-> hijri.hm, hd |-> hijri.hd,
                 newHy |-> target.hy, newHm |-> target.hm,
                 maxDay |-> maxDay, clampedDay |-> clampedDay],
                calls,
                fromHijri(target.hy, target.hm, clampedDay),
                DayDelta(duration))

\* dateAdd, lines 211-225: years and months added in Hijri space.
dateAddHijri(hijri, calls, duration) ==
  LET target == NormalizeMonth(hijri.hy + duration.years,
                               hijri.hm + duration.months)
  IN dateAddClamp(hijri, calls, target,
                  EngineDaysInMonth(engine, target.hy, target.hm), duration)

\* dateAdd honouring overflow 'reject': a day missing from the target month
\* is an error.
dateAddRejecting(date, duration, options) ==
  LET h == toHijri(date)
  IN IF ~h.ok THEN h
     ELSE LET r == dateAddHijri(h.val, h.calls, duration)
          IN IF /\ options.overflow = "reject"
                /\ r.locals.hd > r.locals.maxDay
             THEN [ok |-> FALSE,
                   err |-> [type |-> "RangeError", calendar |-> id,
                            subject |-> [hy |-> r.locals.newHy,
                                         hm |-> r.locals.newHm,
                                         hd |-> r.locals.hd]],
                   calls |-> h.calls, locals |-> r.locals]
             ELSE r

dateAdd(date, duration, options) ==
  LET h == toHijri(date)
  IN IF ~h.ok THEN h ELSE dateAddHijri(h.val, h.calls, duration)

----------------------------------------------------------------------------
(* Arithmetic: dateUntil *)

Sign(n) == IF n > 0 THEN 1 ELSE IF n < 0 THEN 0 - 1 ELSE 0

Abs(n) == IF n < 0 THEN 0 - n ELSE n

MixedSigns(components) ==
  /\ \E c \in components : c > 0
  /\ \E c \in components : c < 0

\* new Temporal.Duration(years, months, weeks, days): Temporal rejects
\* components of different signs with a RangeError of its own.
NewDuration(years, months, weeks, days) ==
  LET d == [years |-> years, months |-> months, weeks |-> weeks, days |-> days]
  IN IF MixedSigns({years, months, weeks, days})
     THEN [ok |-> FALSE,
           err |-> [type |-> "RangeError", calendar |-> "",
                    subject |-> [duration |-> d]]]
     ELSE [ok |-> TRUE, val |-> d]

\* one.until(two, { largestUnit }) of the ISO calendar, for weeks and days
PlainDateUntil(one, two, largestUnit) ==
  LET diff == two - one
  IN IF largestUnit = "weeks"
     THEN [years |-> 0, months |-> 0,
           weeks |-> Sign(diff) * (Abs(diff) \div 7),
           days |-> Sign(diff) * (Abs(diff) % 7)]
     ELSE [years |-> 0, months |-> 0, weeks |-> 0, days |-> diff]

\* A default of 'months'.
LargestUnitOfMonths(options) ==
  IF options.largestUnit = "undefined" THEN "months" ELSE options.largestUnit

\* options?.largestUnit ?? 'days'
LargestUnitOf(options) ==
  IF options.largestUnit = "undefined" THEN "days" ELSE options.largestUnit
\* The branch for years borrowing 30 days whatever the month borrowed from.
differenceYearsThirty(h1, h2) ==
  LET years0 == h2.hy - h1.hy
      months0 == h2.hm - h1.hm
      days0 == h2.hd - h1.hd
      months1 == IF days0 < 0 THEN months0 - 1 ELSE months0
      days1 == IF days0 < 0 THEN days0 + 30 ELSE days0
      years1 == IF months1 < 0 THEN years0 - 1 ELSE years0
      months2 == IF months1 < 0 THEN months1 + 12 ELSE months1
  IN [years |-> years1, months |-> months2, days |-> days1]

\* The branch for years
differenceYears(h1, h2) ==
  LET years0 == h2.hy - h1.hy
      months0 == h2.hm - h1.hm
      days0 == h2.hd - h1.hd
      borrowHm == IF h2.hm - 1 < 1 THEN 12 ELSE h2.hm - 1
      borrowHy == IF h2.hm - 1 < 1 THEN h2.hy - 1 ELSE h2.hy
      months1 == IF days0 < 0 THEN months0 - 1 ELSE months0
      days1 == IF days0 < 0
               THEN days0 + EngineDaysInMonth(engine, borrowHy, borrowHm)
               ELSE days0
      years1 == IF months1 < 0 THEN years0 - 1 ELSE years0
      months2 == IF months1 < 0 THEN months1 + 12 ELSE months1
  IN [years |-> years1, months |-> months2, days |-> days1]

\* The branch for months borrowing the length of the end date's own month.
differenceMonthsOwnMonth(h1, h2) ==
  LET years0 == h2.hy - h1.hy
      months0 == h2.hm - h1.hm
      days0 == h2.hd - h1.hd
      months1 == IF days0 < 0 THEN months0 - 1 ELSE months0
      days1 == IF days0 < 0
               THEN days0 + EngineDaysInMonth(engine, h2.hy, h2.hm)
               ELSE days0
      years1 == IF months1 < 0 THEN years0 - 1 ELSE years0
      months2 == IF months1 < 0 THEN months1 + 12 ELSE months1
  IN [years |-> years1, months |-> months2, days |-> days1]

\* The branch for months
differenceMonths(h1, h2) ==
  LET years0 == h2.hy - h1.hy
      months0 == h2.hm - h1.hm
      days0 == h2.hd - h1.hd
      borrowHm == IF h2.hm - 1 < 1 THEN 12 ELSE h2.hm - 1
      borrowHy == IF h2.hm - 1 < 1 THEN h2.hy - 1 ELSE h2.hy
      months1 == IF days0 < 0 THEN months0 - 1 ELSE months0
      days1 == IF days0 < 0
               THEN days0 + EngineDaysInMonth(engine, borrowHy, borrowHm)
               ELSE days0
      years1 == IF months1 < 0 THEN years0 - 1 ELSE years0
      months2 == IF months1 < 0 THEN months1 + 12 ELSE months1
  IN [years |-> years1, months |-> months2, days |-> days1]

\* return new Temporal.Duration(...): the duration, or Temporal's error
DurationResult(r, calls) ==
  IF r.ok THEN Returned(r.val, calls) ELSE Thrown(r.err, calls)

\* dateUntil, lines 249-275: the branch for years, h1 and h2 being what
\* toHijri gives for one and two (two is not converted when one fails).
dateUntilYears(h1, h2) ==
  IF ~h1.ok THEN h1
  ELSE IF ~h2.ok THEN Thrown(h2.err, h1.calls \o h2.calls)
  ELSE LET d == differenceYears(h1.val, h2.val)
       IN DurationResult(NewDuration(d.years, d.months, 0, d.days),
                         h1.calls \o h2.calls)

\* dateUntil, lines 279-303: the branch for months.
dateUntilMonths(h1, h2) ==
  IF ~h1.ok THEN h1
  ELSE IF ~h2.ok THEN Thrown(h2.err, h1.calls \o h2.calls)
  ELSE LET d == differenceMonths(h1.val, h2.val)
       IN DurationResult(NewDuration(0, d.years * 12 + d.months, 0, d.days),
                         h1.calls \o h2.calls)

dateUntilUnit(one, two, largestUnit) ==
  IF largestUnit \in {"years", "year"}
  THEN dateUntilYears(toHijri(one), toHijri(two))
  ELSE IF largestUnit \in {"months", "month"}
  THEN dateUntilMonths(toHijri(one), toHijri(two))
  ELSE IF largestUnit \in {"weeks", "week"}
  THEN Returned(PlainDateUntil(one, two, "weeks"), <<>>)
  ELSE Returned(PlainDateUntil(one, two, "days"), <<>>)

dateUntil(one, two, options) ==
  dateUntilUnit(one, two, LargestUnitOf(options))

----------------------------------------------------------------------------
(* Inputs *)

TzOffsets == (0 - MaxTz)..MaxTz

\* Dates handed to the accessors: every ISO day of the table and Margin days
\* on either side of it.
Dates == (Epoch - Margin)..LastIsoDay

\* Dates handed to the arithmetic: the days outside the table and, of the
\* first two, a middle and the last Hijri month of every year of the table,
\* the first and the last two days.
TestMonths == {1, 2, 7, 12}
TestDays == {1, 29, 30}

ArithDates(e) ==
  {d \in Dates :
     LET c == CoordOfDayTable[e.table][d]
     IN \/ c.hy \notin FirstYear..LastYear
        \/ c.hm \in TestMonths /\ c.hd \in TestDays}

\* Temporal.Duration values: the components never differ in sign.
Durations ==
  {d \in [years : (0 - MaxYears)..MaxYears,
          months : (0 - MaxMonths)..MaxMonths,
          weeks : (0 - MaxWeeks)..MaxWeeks,
          days : (0 - MaxDays)..MaxDays] :
     ~MixedSigns({d.years, d.months, d.weeks, d.days})}

OverflowOptions == [overflow : {"undefined", "constrain", "reject"}]

DateUnits ==
  {"year", "years", "month", "months", "week", "weeks", "day", "days", "auto"}

UntilOptions == [largestUnit : DateUnits \cup {"undefined"}]

FieldYears == (FirstYear - 1)..(LastYear + 1)
FieldMonths == 0..(MonthsInYear + 1)
FieldDays == {0, 1, 29, 30, 31}

----------------------------------------------------------------------------
(* The state machine: one calendar object and its caller. A call runs to   *)
(* completion (the methods are synchronous); last holds the call and what  *)
(* it gave until the caller takes it.                                      *)

Idle == [op |-> "idle"]

Init ==
  /\ engine \in Engines
  /\ id = "hijri-" \o engine.id
  /\ tz \in TzOffsets
  /\ last = Idle

DateCall(name, date, res) == [op |-> name, date |-> date, res |-> res]

CallYear ==
  /\ last = Idle
  /\ \E date \in Dates : last' = DateCall("year", date, year(date))
  /\ UNCHANGED <<engine, id, tz>>

CallMonth ==
  /\ last = Idle
  /\ \E date \in Dates : last' = DateCall("month", date, month(date))
  /\ UNCHANGED <<engine, id, tz>>

CallMonthCode ==
  /\ last = Idle
  /\ \E date \in Dates : last' = DateCall("monthCode", date, monthCode(date))
  /\ UNCHANGED <<engine, id, tz>>

CallDay ==
  /\ last = Idle
  /\ \E date \in Dates : last' = DateCall("day", date, day(date))
  /\ UNCHANGED <<engine, id, tz>>

CallDaysInMonth ==
  /\ last = Idle
  /\ \E date \in Dates :
       last' = DateCall("daysInMonth", date, daysInMonth(date))
  /\ UNCHANGED <<engine, id, tz>>

CallDaysInYear ==
  /\ last = Idle
  /\ \E date \in Dates : last' = DateCall("daysInYear", date, daysInYear(date))
  /\ UNCHANGED <<engine, id, tz>>

CallInLeapYear ==
  /\ last = Idle
  /\ \E date \in Dates : last' = DateCall("inLeapYear", date, inLeapYear(date))
  /\ UNCHANGED <<engine, id, tz>>

CallDayOfYear ==
  /\ last = Idle
  /\ \E date \in Dates : last' = DateCall("dayOfYear", date, dayOfYear(date))
  /\ UNCHANGED <<engine, id, tz>>

CallWeekOfYear ==
  /\ last = Idle
  /\ \E date \in Dates : last' = DateCall("weekOfYear", date, weekOfYear(date))
  /\ UNCHANGED <<engine, id, tz>>

CallDateFromFields ==
  /\ last = Idle
  /\ \E y \in FieldYears, m \in FieldMonths, d \in FieldDays,
        options \in OverflowOptions :
       LET fields == [year |-> y, month |-> m, day |-> d]
       IN last' = [op |-> "dateFromFields", fields |-> fields,
                   options |-> options,
                   res |-> dateFromFields(fields, options)]
  /\ UNCHANGED <<engine, id, tz>>

CallYearMonthFromFields ==
  /\ last = Idle
  /\ \E y \in FieldYears, m \in FieldMonths, options \in OverflowOptions :
       LET fields == [year |-> y, month |-> m]
       IN last' = [op |-> "yearMonthFromFields", fields |-> fields,
                   options |-> options,
                   res |-> yearMonthFromFields(fields, options)]
  /\ UNCHANGED <<engine, id, tz>>

\* Field sets of monthDayFromFields: with a year and without one.
MonthDayFields ==
  [month : FieldMonths, day : FieldDays]
    \cup [year : FieldYears, month : FieldMonths, day : FieldDays]

CallMonthDayFromFields ==
  /\ last = Idle
  /\ \E fields \in MonthDayFields, options \in OverflowOptions :
       last' = [op |-> "monthDayFromFields", fields |-> fields,
                options |-> options,
                res |-> monthDayFromFields(fields, options)]
  /\ UNCHANGED <<engine, id, tz>>

CallDateAdd ==
  /\ last = Idle
  /\ \E date \in ArithDates(engine), duration \in Durations,
        options \in OverflowOptions :
       last' = [op |-> "dateAdd", date |-> date, duration |-> duration,
                options |-> options,
                res |-> dateAdd(date, duration, options)]
  /\ UNCHANGED <<engine, id, tz>>

CallDateUntil ==
  /\ last = Idle
  /\ \E one \in ArithDates(engine), two \in ArithDates(engine),
        options \in UntilOptions :
       last' = [op |-> "dateUntil", one |-> one, two |-> two,
                options |-> options,
                res |-> dateUntil(one, two, options)]
  /\ UNCHANGED <<engine, id, tz>>

\* A call that leaves its mark on the calendar: a failed call blanks the id.
ReturnMarked ==
  /\ last # Idle
  /\ last' = Idle
  /\ id' = IF last.res.ok THEN id ELSE ""
  /\ UNCHANGED <<engine, tz>>

\* The caller takes the result; the calendar keeps nothing of the call.
Return ==
  /\ last # Idle
  /\ last' = Idle
  /\ UNCHANGED <<engine, id, tz>>

Next ==
  \/ CallYear
  \/ CallMonth
  \/ CallMonthCode
  \/ CallDay
  \/ CallDaysInMonth
  \/ CallDaysInYear
  \/ CallInLeapYear
  \/ CallDayOfYear
  \/ CallWeekOfYear
  \/ CallDateFromFields
  \/ CallYearMonthFromFields
  \/ CallMonthDayFromFields
  \/ CallDateAdd
  \/ CallDateUntil
  \/ Return

Spec == Init /\ [][Next]_vars

----------------------------------------------------------------------------
(* Properties *)

\* The ISO day d lies inside the supported domain of the engine.
InDomain(d) == CoordOfDayTable[engine.table][d].hy \in SupportedYears(engine)

\* The Hijri coordinate the engine's table gives ISO day d.
TrueCoord(d) == CoordOfDay(engine.table, d)

ZeroDuration == [years |-> 0, months |-> 0, weeks |-> 0, days |-> 0]

AccessorOps == {"year", "month", "day"}

\* C1: round trip. For every ISO date d inside the engine's domain that an
\* accessor has converted with toHijri, the conversion succeeded and
\* fromHijri of the coordinate toHijri gave returns exactly d.
C1_RoundTrip ==
  (last.op \in AccessorOps /\ InDomain(last.date)) =>
    LET h == toHijri(last.date)
    IN /\ last.res.ok
       /\ h.ok
       /\ LET back == fromHijri(h.val.hy, h.val.hm, h.val.hd)
          IN back.ok /\ back.val = last.date

\* C2: dateAdd of a date inside the domain and a duration whose years,
\* months, weeks and days are all zero returns the date unchanged.
C2_AddZero ==
  (/\ last.op = "dateAdd"
   /\ last.duration = ZeroDuration
   /\ InDomain(last.date)) =>
    (last.res.ok /\ last.res.val = last.date)

\* The dateAdd call in last got past toHijri, so its locals exist.
AddConverted ==
  /\ last.op = "dateAdd"
  /\ "locals" \in DOMAIN last.res

\* C3: in dateAdd the normalized target (newHy, newHm) has 1 <= newHm <= 12
\* and counts the same number of months as (hy + years, hm + months), for
\* every magnitude and sign of the delta; the two loops end.
C3_Normalized ==
  AddConverted =>
    LET l == last.res.locals
    IN /\ l.newHm >= 1
       /\ l.newHm <= 12
       /\ 12 * l.newHy + (l.newHm - 1)
            = 12 * (l.hy + last.duration.years)
                + (l.hm + last.duration.months - 1)

\* A delta that takes the first loop round twice.
C3_Witness ==
  /\ AddConverted
  /\ last.res.ok
  /\ last.res.locals.hm + last.duration.months > 24
  /\ last.res.locals.newHy = last.res.locals.hy + last.duration.years + 2

\* The target month of the dateAdd call in last is one the engine supports.
TargetSupported ==
  /\ AddConverted
  /\ last.res.locals.newHy \in SupportedYears(engine)

\* C4: in dateAdd, when the origin day hd exceeds the length of the target
\* month (a month of the engine's domain), the date before the day/week
\* offset is the last day of the target month: the call does not fail and
\* the date is day min(hd, length) of month newHm of year newHy, not a day
\* of the month after. When hd fits, it is day hd of the target month.
C4_Clamped ==
  TargetSupported =>
    LET l == last.res.locals
        len == MonthLen(engine.table, l.newHy, l.newHm)
    IN /\ last.res.ok
       /\ TrueCoord(l.intermediate) =
            [hy |-> l.newHy, hm |-> l.newHm,
             hd |-> IF l.hd > len THEN len ELSE l.hd]

\* Day 30 taken to a month of 29 days.
C4_Witness ==
  /\ TargetSupported
  /\ last.res.ok
  /\ last.res.locals.hd = 30
  /\ MonthLen(engine.table, last.res.locals.newHy, last.res.locals.newHm) = 29
  /\ TrueCoord(last.res.locals.intermediate).hd = 29
  /\ last.duration.months = 1

YearsMonthsOnly(duration) == [duration EXCEPT !.weeks = 0, !.days = 0]

\* C5: dateAdd applies days and weeks after the year/month step, as an exact
\* ISO day offset: the result is days + 7 * weeks days after what dateAdd
\* gives for the years and months alone, and a duration of days and weeks
\* only moves a date of the domain by exactly days + 7 * weeks days.
C5_DayOffset ==
  (last.op = "dateAdd") =>
    LET ym == dateAdd(last.date, YearsMonthsOnly(last.duration), last.options)
        offset == last.duration.days + 7 * last.duration.weeks
    IN /\ ym.ok = last.res.ok
       /\ ym.ok => last.res.val = ym.val + offset
       /\ (/\ InDomain(last.date)
           /\ last.duration.years = 0
           /\ last.duration.months = 0) =>
            (last.res.ok /\ last.res.val = last.date + offset)

\* C6: the overflow option of dateAdd has no effect: with 'reject', with
\* 'constrain' and with no option the call gives the same outcome, and a day
\* missing from the target month is clamped, not rejected.
C6_OverflowIgnored ==
  (last.op = "dateAdd") =>
    /\ last.res = dateAdd(last.date, last.duration, [overflow |-> "constrain"])
    /\ (AddConverted /\ last.res.locals.hd > last.res.locals.maxDay
          /\ TargetSupported) => last.res.ok

\* 'reject' given, and the day does not exist in the target month.
C6_Witness ==
  /\ TargetSupported
  /\ last.options.overflow = "reject"
  /\ last.res.locals.hd > last.res.locals.maxDay
  /\ last.res.ok
  /\ last.res.locals.clampedDay = last.res.locals.maxDay

\* The dateUntil call in last was given a largestUnit of units, and both of
\* its dates are dates the bridge converts.
UntilConverted(units) ==
  /\ last.op = "dateUntil"
  /\ last.options.largestUnit \in units
  /\ toHijri(last.one).ok
  /\ toHijri(last.two).ok

\* The difference of two coordinates as a reader of the documentation
\* computes it: component-wise, a negative day count borrowing the length of
\* the month before the end date's month, a negative month count borrowing
\* a year.
BorrowedDifference(h1, h2) ==
  LET dayBorrow == h2.hd < h1.hd
      prevHm == IF h2.hm = 1 THEN 12 ELSE h2.hm - 1
      prevHy == IF h2.hm = 1 THEN h2.hy - 1 ELSE h2.hy
      d == IF dayBorrow
           THEN h2.hd - h1.hd + MonthLen(engine.table, prevHy, prevHm)
           ELSE h2.hd - h1.hd
      m == (h2.hm - h1.hm) - (IF dayBorrow THEN 1 ELSE 0)
      monthBorrow == m < 0
  IN [years |-> (h2.hy - h1.hy) - (IF monthBorrow THEN 1 ELSE 0),
      months |-> IF monthBorrow THEN m + 12 ELSE m,
      weeks |-> 0,
      days |-> d]

\* C7: dateUntil with largestUnit years returns the duration (years, months,
\* 0 weeks, days) of the component-wise difference of the two coordinates,
\* after the day borrow (length of the month before the end date's month)
\* and the month borrow (12).
C7_YearsDifference ==
  UntilConverted({"years", "year"}) =>
    /\ last.res.ok
    /\ last.res.val =
         BorrowedDifference(toHijri(last.one).val, toHijri(last.two).val)

\* C8: dateUntil with largestUnit months returns zero years, months =
\* 12 * Y + M and the same days, (Y, M, days) being what largestUnit years
\* returns for the same dates; between two dates on the same day of the
\* month it returns whole months and 0 days.
C8_MonthsFolded ==
  UntilConverted({"months", "month"}) =>
    LET y == dateUntil(last.one, last.two, [largestUnit |-> "years"])
        h1 == toHijri(last.one).val
        h2 == toHijri(last.two).val
    IN /\ y.ok =>
            /\ last.res.ok
            /\ last.res.val =
                 [years |-> 0, months |-> 12 * y.val.years + y.val.months,
                  weeks |-> 0, days |-> y.val.days]
       /\ h1.hd = h2.hd =>
            /\ last.res.ok
            /\ last.res.val =
                 [years |-> 0,
                  months |-> 12 * (h2.hy - h1.hy) + (h2.hm - h1.hm),
                  weeks |-> 0, days |-> 0]

\* More than a year apart, with a day borrow: years are folded into months.
C8_Witness ==
  /\ UntilConverted({"months", "month"})
  /\ last.res.ok
  /\ last.res.val.months > 12
  /\ toHijri(last.two).val.hd < toHijri(last.one).val.hd
  /\ dateUntil(last.one, last.two, [largestUnit |-> "years"]).ok

IsoUnits == {"weeks", "week", "days", "day", "auto", "undefined"}

\* C9: dateUntil with largestUnit days or weeks, or with no largestUnit, is
\* the ISO difference of the two dates: it counts exactly two - one days
\* (all of them in days unless weeks were asked for), asks the engine
\* nothing and does not fail, in or out of the engine's domain.
C9_IsoDifference ==
  (last.op = "dateUntil" /\ last.options.largestUnit \in IsoUnits) =>
    /\ last.res.ok
    /\ last.res.calls = <<>>
    /\ last.res.val.years = 0
    /\ last.res.val.months = 0
    /\ 7 * last.res.val.weeks + last.res.val.days = last.two - last.one
    /\ last.options.largestUnit \notin {"weeks", "week"} =>
         last.res.val.weeks = 0

\* No largestUnit, and a date the engine cannot convert.
C9_Witness ==
  /\ last.op = "dateUntil"
  /\ last.options.largestUnit = "undefined"
  /\ ~toHijri(last.one).ok
  /\ last.res.ok
  /\ last.res.val.days = last.two - last.one
  /\ last.two - last.one > 7

\* The dates or the coordinate the call in last was given, in the order in
\* which it converts them.
Requested ==
  IF last.op = "dateFromFields"
  THEN <<[hy |-> last.fields.year, hm |-> last.fields.month,
          hd |-> last.fields.day]>>
  ELSE IF last.op = "yearMonthFromFields"
  THEN <<[hy |-> last.fields.year, hm |-> last.fields.month, hd |-> 1]>>
  ELSE IF last.op = "monthDayFromFields"
  THEN <<[hy |-> IF "year" \in DOMAIN last.fields THEN last.fields.year
                 ELSE 1444,
          hm |-> last.fields.month, hd |-> last.fields.day]>>
  ELSE IF last.op = "dateUntil" THEN <<[date |-> last.one],
                                       [date |-> last.two]>>
  ELSE <<[date |-> last.date]>>

\* What a conversion the engine was asked for was about: the date the Date
\* object was built from, or the coordinate.
SubjectOf(call, n) ==
  IF call.fn = "toHijri" THEN Requested[n] ELSE call.arg

\* C10: a call fails with the calendar's RangeError exactly when the engine
\* answered null to a conversion the call asked for; the error names the
\* calendar and the date or coordinate of that conversion, the call returns
\* no value and asks the engine nothing more.
C10_OutOfRange ==
  (last.op # "idle") =>
    LET r == last.res
        n == Len(r.calls)
        nulls == {i \in 1..n : r.calls[i].ret = Absent}
    IN /\ (~r.ok /\ r.err.calendar = id) <=> (nulls # {})
       /\ nulls # {} =>
            /\ nulls = {n}
            /\ "val" \notin DOMAIN r
            /\ r.err = [type |-> "RangeError", calendar |-> id,
                        subject |-> SubjectOf(r.calls[n], n)]
       /\ (last.op \notin {"dateUntil"} /\ nulls = {}) => r.ok

\* dateAdd converted the date, and the engine had no date for the target.
C10_Witness ==
  /\ last.op = "dateAdd"
  /\ ~last.res.ok
  /\ Len(last.res.calls) = 2
  /\ last.res.calls[2].ret = Absent
  /\ last.res.err.subject = last.res.calls[2].arg
  /\ last.res.err.calendar = "hijri-uaq"

\* The years, months and days of a duration are well formed: the non-zero
\* ones have one sign.
WellFormed(d) == ~MixedSigns({d.years, d.months, d.weeks, d.days})

\* C11: the calendar's RangeError (OutOfRange) is the only failure of any
\* operation; dateUntil with largestUnit years or months, for two dates of
\* the domain in either order, returns a duration whose non-zero components
\* all have the same sign.
C11_OnlyOutOfRange ==
  /\ (last.op # "idle" /\ ~last.res.ok) =>
       (last.res.err.type = "RangeError" /\ last.res.err.calendar = id)
  /\ UntilConverted({"years", "year", "months", "month"}) =>
       (last.res.ok /\ WellFormed(last.res.val))

\* The lengths of the months of Hijri year hy before month hm, added up.
LengthsBefore(hy, hm) ==
  LET L(k) == IF k < hm THEN EngineDaysInMonth(engine, hy, k) ELSE 0
  IN L(1) + L(2) + L(3) + L(4) + L(5) + L(6)
       + L(7) + L(8) + L(9) + L(10) + L(11) + L(12)

\* C12: for every date of the domain, daysInYear is the sum of
\* engine.daysInMonth(year, m) over m = 1..12, year being the Hijri year of
\* the date (what year returns for it), and it is 354 or 355.
C12_DaysInYear ==
  (last.op = "daysInYear" /\ InDomain(last.date)) =>
    /\ last.res.ok
    /\ year(last.date).ok
    /\ last.res.val = LengthsBefore(year(last.date).val, MonthsInYear + 1)
    /\ last.res.val \in {354, 355}

\* A year of 355 days.
C12_Witness ==
  /\ last.op = "daysInYear"
  /\ InDomain(last.date)
  /\ last.res.ok
  /\ last.res.val = 355

\* C13: for every date of the domain, dayOfYear is the Hijri day of the date
\* plus the lengths of the months 1..(month - 1) of its Hijri year, and
\* 1 <= dayOfYear <= daysInYear.
C13_DayOfYear ==
  (last.op = "dayOfYear" /\ InDomain(last.date)) =>
    /\ last.res.ok
    /\ year(last.date).ok
    /\ month(last.date).ok
    /\ day(last.date).ok
    /\ daysInYear(last.date).ok
    /\ last.res.val = day(last.date).val
                        + LengthsBefore(year(last.date).val,
                                        month(last.date).val)
    /\ 1 <= last.res.val
    /\ last.res.val <= daysInYear(last.date).val

\* The last day of a Hijri year.
C13_Witness ==
  /\ last.op = "dayOfYear"
  /\ InDomain(last.date)
  /\ last.res.ok
  /\ last.res.val = daysInYear(last.date).val
  /\ month(last.date).val = 12

\* C14: for every date of the domain, weekOfYear is ceil(dayOfYear / 7),
\* the least w with 7 * w >= dayOfYear, and lies in 1..51.
C14_WeekOfYear ==
  (last.op = "weekOfYear" /\ InDomain(last.date)) =>
    /\ last.res.ok
    /\ dayOfYear(last.date).ok
    /\ 7 * last.res.val >= dayOfYear(last.date).val
    /\ 7 * (last.res.val - 1) < dayOfYear(last.date).val
    /\ last.res.val \in 1..51

\* Week 51, the last, which is not a full week.
C14_Witness ==
  /\ last.op = "weekOfYear"
  /\ InDomain(last.date)
  /\ last.res.ok
  /\ last.res.val = 51
  /\ dayOfYear(last.date).val % 7 # 0

\* The month codes M01..M12, the code of month k at index k.
MonthCodes ==
  [k \in Months |->
     <<"M", DigitChars[(k \div 10) + 1], DigitChars[(k % 10) + 1]>>]

\* C15: for every date of the domain, monthCode is the letter M followed by
\* the Hijri month number in exactly two digits, zero-padded: one of
\* M01..M12, and the code of the number month returns.
C15_MonthCode ==
  (last.op = "monthCode" /\ InDomain(last.date)) =>
    /\ last.res.ok
    /\ month(last.date).ok
    /\ month(last.date).val \in Months
    /\ Len(last.res.val) = 3
    /\ last.res.val = MonthCodes[month(last.date).val]

\* A month of one digit: M09.
C15_Witness ==
  /\ last.op = "monthCode"
  /\ InDomain(last.date)
  /\ last.res.ok
  /\ last.res.val = <<"M", "0", "9">>
  /\ month(last.date).val = 9

\* C16: monthDayFromFields resolves {month, day} against Hijri year 1444
\* when the fields hold no year and against the year they hold otherwise:
\* it returns the ISO month and day of fromHijri(year ?? 1444, month, day),
\* the day the engine's table gives that coordinate, and raises the
\* calendar's RangeError for a coordinate outside the engine's domain.
C16_MonthDay ==
  (last.op = "monthDayFromFields") =>
    LET f == last.fields
        givenYear == "year" \in DOMAIN f
        iso == IF givenYear THEN fromHijri(f.year, f.month, f.day)
               ELSE fromHijri(1444, f.month, f.day)
        valid == IF givenYear THEN ValidCoord(engine, f.year, f.month, f.day)
                 ELSE ValidCoord(engine, 1444, f.month, f.day)
    IN /\ last.res.ok = valid
       /\ iso.ok = valid
       /\ valid =>
            /\ last.res.val = [month |-> IsoFields(iso.val).month,
                               day |-> IsoFields(iso.val).day]
            /\ TrueCoord(iso.val).hm = f.month
            /\ TrueCoord(iso.val).hd = f.day
            /\ TrueCoord(iso.val).hy = IF givenYear THEN f.year ELSE 1444
       /\ ~valid => last.res.err = iso.err /\ last.res.err.calendar = id

\* No year given: the month and day of 1 Ramadan 1444, 23 March.
C16_Witness ==
  /\ last.op = "monthDayFromFields"
  /\ "year" \notin DOMAIN last.fields
  /\ last.fields.month = 9
  /\ last.fields.day = 1
  /\ last.res.ok
  /\ last.res.val = [month |-> 3, day |-> 23]

\* The answer of the engine to the first conversion of the call in last.
FirstAnswer == last.res.calls[1].ret

\* C17: the bridge does not depend on the host timezone. For an engine that
\* reads the local fields of the Date, the coordinate toHijri obtains for an
\* ISO date is the one the engine's table gives that date (null outside the
\* domain), under every timezone offset; and the ISO date fromHijri returns
\* for a coordinate is the day the table gives it, under every offset.
\* Neither right-hand side mentions tz, and tz ranges over TzOffsets.
C17_TimezoneFree ==
  /\ ("date" \in DOMAIN last /\ engine.reads = "local") =>
       FirstAnswer = IF InDomain(last.date) THEN TrueCoord(last.date)
                     ELSE Absent
  /\ (last.op = "dateFromFields") =>
       LET f == last.fields
       IN IF ValidCoord(engine, f.year, f.month, f.day)
          THEN /\ last.res.ok
               /\ last.res.val = IsoDayOf(engine, f.year, f.month, f.day)
          ELSE ~last.res.ok

\* A host west of UTC, where local midnight and UTC midnight of a date fall
\* on different UTC days, and an engine that reads local fields.
C17_Witness ==
  /\ "date" \in DOMAIN last
  /\ engine.reads = "local"
  /\ tz < 0
  /\ last.res.ok
  /\ FirstAnswer = TrueCoord(last.date)

\* The state of a calendar object just constructed on engine e.
Fresh(e, i) == i = "hijri-" \o e.id

\* C18: a calendar object holds no mutable state. No call, failed or not,
\* and no sequence of calls changes its id or its engine: after every step
\* the object is as it was when constructed, so a call made then gives what
\* it gives on a fresh instance (an error it raises names the id of the
\* fresh instance).
C18_Stateless ==
  [][/\ engine' = engine
     /\ id' = id
     /\ Fresh(engine', id')
     /\ (last' # Idle /\ ~last'.res.ok /\ last'.res.err.calendar # "") =>
          last'.res.err.calendar = "hijri-" \o engine.id]_vars

\* A call has failed with the calendar's RangeError on an object that is
\* still as constructed.
C18_Witness ==
  /\ last.op = "dateAdd"
  /\ ~last.res.ok
  /\ last.res.err.calendar = id
  /\ Fresh(engine, id)

OneMonth == [years |-> 0, months |-> 1, weeks |-> 0, days |-> 0]

\* The month after month hm of year hy.
FollowingMonth(hy, hm) ==
  IF hm = 12 THEN [hy |-> hy + 1, hm |-> 1] ELSE [hy |-> hy, hm |-> hm + 1]

\* C19: for every date of the domain whose Hijri day also exists in the
\* following Hijri month (a month of the engine's domain), dateAdd of
\* exactly one month returns the date with the same day in the following
\* month (month + 1, or month 1 of the next year after month 12), which is
\* the date daysInMonth(origin) days after the origin.
C19_OneMonth ==
  (/\ last.op = "dateAdd"
   /\ last.duration = OneMonth
   /\ InDomain(last.date)
   /\ LET c == TrueCoord(last.date)
          n == FollowingMonth(c.hy, c.hm)
      IN /\ n.hy \in SupportedYears(engine)
         /\ c.hd <= MonthLen(engine.table, n.hy, n.hm)) =>
    LET c == TrueCoord(last.date)
        n == FollowingMonth(c.hy, c.hm)
    IN /\ last.res.ok
       /\ TrueCoord(last.res.val) = [hy |-> n.hy, hm |-> n.hm, hd |-> c.hd]
       /\ last.res.val = last.date + MonthLen(engine.table, c.hy, c.hm)
       /\ daysInMonth(last.date).ok
       /\ last.res.val = last.date + daysInMonth(last.date).val

\* C20: dateAdd and dateUntil agree. For two dates of the domain, the end at
\* or after the start, dateAdd of the start and the duration dateUntil gives
\* with largestUnit months or years returns the end.
C20_AddUntil ==
  (/\ last.op = "dateUntil"
   /\ last.options.largestUnit \in {"years", "year", "months", "month"}
   /\ InDomain(last.one)
   /\ InDomain(last.two)
   /\ last.two >= last.one) =>
    /\ last.res.ok
    /\ dateAdd(last.one, last.res.val, [overflow |-> "undefined"]).ok
    /\ dateAdd(last.one, last.res.val, [overflow |-> "undefined"]).val
         = last.two

\* The month before month hm of year hy.
PrecedingMonth(hy, hm) ==
  IF hm = 1 THEN [hy |-> hy - 1, hm |-> 12] ELSE [hy |-> hy, hm |-> hm - 1]

\* C21: for two dates of the domain, the end at or after the start,
\* dateUntil with largestUnit years returns years >= 0, 0 <= months <= 11,
\* 0 weeks and 0 <= days <= 29; after a day borrow the days are fewer than
\* the days of the month borrowed from (the month before the end's month);
\* and for equal dates it returns the zero duration.
C21_YearsBounds ==
  (/\ last.op = "dateUntil"
   /\ last.options.largestUnit \in {"years", "year"}
   /\ InDomain(last.one)
   /\ InDomain(last.two)
   /\ last.two >= last.one) =>
    /\ last.res.ok
    /\ last.res.val.years >= 0
    /\ last.res.val.months \in 0..11
    /\ last.res.val.weeks = 0
    /\ last.res.val.days \in 0..29
    /\ LET h1 == last.res.calls[1].ret
           h2 == last.res.calls[2].ret
           p == PrecedingMonth(h2.hy, h2.hm)
       IN h2.hd < h1.hd =>
            last.res.val.days < MonthLen(engine.table, p.hy, p.hm)
    /\ last.one = last.two => last.res.val = ZeroDuration

\* A day borrow from a month of 29 days that leaves 28 days, the most it can.
C21_Witness ==
  /\ last.op = "dateUntil"
  /\ last.options.largestUnit \in {"years", "year"}
  /\ InDomain(last.one)
  /\ InDomain(last.two)
  /\ last.two >= last.one
  /\ last.res.ok
  /\ last.res.calls[2].ret.hd < last.res.calls[1].ret.hd
  /\ last.res.val.days = 28
  /\ LET h2 == last.res.calls[2].ret
         p == PrecedingMonth(h2.hy, h2.hm)
     IN MonthLen(engine.table, p.hy, p.hm) = 29

\* The years, months, weeks and days of a duration are none negative.
NonNegative(d) == d.years >= 0 /\ d.months >= 0 /\ d.weeks >= 0 /\ d.days >= 0

\* dateAdd of date d and the duration of the call in last does not come
\* after the result of that call, or it fails.
NotAfterResult(d) ==
  LET r == dateAdd(d, last.duration, last.options)
  IN r.ok => r.val <= last.res.val

\* C22: dateAdd keeps the order of dates: for one duration and two dates of
\* the domain d1 <= d2 whose additions both succeed, dateAdd(d1, duration)
\* <= dateAdd(d2, duration); and a duration with no negative component
\* never gives a date before the origin.
C22_Monotone ==
  (last.op = "dateAdd" /\ InDomain(last.date) /\ last.res.ok) =>
    /\ \A d1 \in ArithDates(engine) :
         (d1 <= last.date /\ InDomain(d1)) => NotAfterResult(d1)
    /\ NonNegative(last.duration) => last.res.val >= last.date

====
